---- MODULE Spec2Model ----
(***************************************************************************)
(* Scroll-to-animation mapping engine of the 21brain landing page:         *)
(* camera keyframe interpolation (lerpCam), the progress-to-uniform        *)
(* mapper (focus, activation, fadeRange), the topology generator and the   *)
(* per-frame driver (useFrame callback) of the NeuralNetwork component.    *)
(*                                                                         *)
(* Numbers.  A JavaScript number is modelled as an exact rational <<n, d>> *)
(* in lowest terms with d > 0, plus the three non-finite values            *)
(* NaN = <<0, 0>>, Infinity = <<1, 0>> and -Infinity = <<-1, 0>>.          *)
(* Arithmetic is exact: the rounding of IEEE-754 binary64 operations and   *)
(* of Float32Array storage is not represented, and neither is the sign of  *)
(* zero.                                                                   *)
(***************************************************************************)
EXTENDS Integers, Sequences, FiniteSets, TLC

(***************************************************************************)
(* JavaScript number arithmetic                                            *)
(***************************************************************************)
Abs(i) == IF i < 0 THEN -i ELSE i

Sgn(i) == IF i > 0 THEN 1 ELSE IF i < 0 THEN -1 ELSE 0

RECURSIVE Gcd(_, _)
Gcd(a, b) == IF b = 0 THEN a ELSE Gcd(b, a % b)

NaN == <<0, 0>>

PosInf == <<1, 0>>

NegInf == <<-1, 0>>

\* n/d divided through by g, with the sign carried by the numerator
Normal(n, d, g) ==
  IF d < 0 THEN <<(0 - n) \div g, (0 - d) \div g>> ELSE <<n \div g, d \div g>>

\* the rational n/d, d # 0, in lowest terms with a positive denominator
Q(n, d) == Normal(n, d, Gcd(Abs(n), Abs(d)))

Zero == <<0, 1>>

One == <<1, 1>>

IsFinite(x) == x[2] # 0

RNeg(x) == <<-x[1], x[2]>>

\* x + y
RAdd(x, y) ==
  IF IsFinite(x) /\ IsFinite(y)
    THEN LET g == Gcd(x[2], y[2])
         IN  Q(x[1] * (y[2] \div g) + y[1] * (x[2] \div g), (x[2] \div g) * y[2])
    ELSE IF x = NaN \/ y = NaN THEN NaN
    ELSE IF IsFinite(x) THEN y
    ELSE IF IsFinite(y) THEN x
    ELSE IF x = y THEN x ELSE NaN

\* x - y
RSub(x, y) == RAdd(x, RNeg(y))

\* x * y
RMul(x, y) ==
  IF IsFinite(x) /\ IsFinite(y)
    THEN LET g1 == Gcd(Abs(x[1]), y[2])
             g2 == Gcd(Abs(y[1]), x[2])
         IN  <<(x[1] \div g1) * (y[1] \div g2), (x[2] \div g2) * (y[2] \div g1)>>
    ELSE IF x = NaN \/ y = NaN \/ x = Zero \/ y = Zero THEN NaN
    ELSE <<Sgn(x[1]) * Sgn(y[1]), 0>>

\* x / y: a finite x over zero is NaN (x = 0) or an infinity, never an exception
RDiv(x, y) ==
  IF IsFinite(x) /\ IsFinite(y)
    THEN IF y[1] = 0 THEN <<Sgn(x[1]), 0>>
         ELSE RMul(x, <<Sgn(y[1]) * y[2], Abs(y[1])>>)
    ELSE IF x = NaN \/ y = NaN THEN NaN
    ELSE IF IsFinite(x) THEN Zero
    ELSE IF IsFinite(y) THEN <<x[1] * (IF y[1] < 0 THEN -1 ELSE 1), 0>>
    ELSE NaN

\* x < y; every comparison with NaN is false
RLt(x, y) ==
  IF x = NaN \/ y = NaN THEN FALSE
  ELSE IF IsFinite(x) /\ IsFinite(y) THEN RSub(x, y)[1] < 0
  ELSE IF x = y THEN FALSE
  ELSE x = NegInf \/ y = PosInf

\* x <= y
RLe(x, y) == x # NaN /\ y # NaN /\ ~RLt(y, x)

\* Math.max(x, y)
RMax(x, y) == IF x = NaN \/ y = NaN THEN NaN ELSE IF RLt(x, y) THEN y ELSE x

\* Math.min(x, y)
RMin(x, y) == IF x = NaN \/ y = NaN THEN NaN ELSE IF RLt(y, x) THEN y ELSE x

\* Math.max(0, Math.min(1, x)), and GLSL clamp(x, 0.0, 1.0)
Clamp01(x) == RMax(Zero, RMin(One, x))

\* Math.floor(x) of a finite x, as an integer
Floor(x) == x[1] \div x[2]

\* Math.round(x) of a finite x: the nearest integer, ties towards +Infinity
Round(x) == Floor(RAdd(x, Q(1, 2)))

\* x % 1 of a finite x: the remainder keeps the sign of x
Mod1(x) ==
  IF x[1] >= 0 THEN RSub(x, <<Floor(x), 1>>)
  ELSE RNeg(RSub(RNeg(x), <<Floor(RNeg(x)), 1>>))

\* THREE.Vector3.lerpVectors(v1, v2, alpha) = v1 + (v2 - v1) * alpha
lerpVectors(v1, v2, alpha) ==
  [k \in 1..3 |-> RAdd(v1[k], RMul(RSub(v2[k], v1[k]), alpha))]

Vec3(x, y, z) == <<x, y, z>>

(***************************************************************************)
(* Camera path                                                             *)
(***************************************************************************)
CAM_KF ==
  << [t |-> Q(0, 100),   pos |-> Vec3(Q(0, 1), Q(2, 1), Q(36, 1)),
      target |-> Vec3(Q(0, 1), Q(0, 1), Q(0, 1))],
     [t |-> Q(12, 100),  pos |-> Vec3(Q(-4, 1), Q(3, 1), Q(26, 1)),
      target |-> Vec3(Q(-2, 1), Q(0, 1), Q(0, 1))],
     [t |-> Q(28, 100),  pos |-> Vec3(Q(-8, 1), Q(0, 1), Q(14, 1)),
      target |-> Vec3(Q(-6, 1), Q(0, 1), Q(2, 1))],
     [t |-> Q(42, 100),  pos |-> Vec3(Q(-2, 1), Q(-1, 1), Q(8, 1)),
      target |-> Vec3(Q(2, 1), Q(0, 1), Q(0, 1))],
     [t |-> Q(56, 100),  pos |-> Vec3(Q(4, 1), Q(3, 1), Q(10, 1)),
      target |-> Vec3(Q(3, 1), Q(0, 1), Q(-1, 1))],
     [t |-> Q(70, 100),  pos |-> Vec3(Q(8, 1), Q(0, 1), Q(6, 1)),
      target |-> Vec3(Q(6, 1), Q(0, 1), Q(0, 1))],
     [t |-> Q(85, 100),  pos |-> Vec3(Q(12, 1), Q(1, 1), Q(5, 1)),
      target |-> Vec3(Q(135, 10), Q(0, 1), Q(0, 1))],
     [t |-> Q(100, 100), pos |-> Vec3(Q(135, 10), Q(3, 10), Q(3, 1)),
      target |-> Vec3(Q(135, 10), Q(0, 1), Q(0, 1))] >>

\* lerpCamClamp without the clamp: const p = progress
lerpCamClamp_noClamp(progress) == progress

\* the clamp of lerpCam's first statement
lerpCamClamp(progress) == Clamp01(progress)

\* the loop of lerpCam from index i on (counted from 1) for the clamped p:
\* the first interval with kf[i].t <= p <= kf[i+1].t, and the initial
\* (first, last) pair when the loop ends without a break
RECURSIVE lerpCamLoop(_, _, _)
lerpCamLoop(kf, p, i) ==
  IF i > Len(kf) - 1 THEN [a |-> 1, b |-> Len(kf)]
  ELSE IF RLe(kf[i].t, p) /\ RLe(p, kf[i + 1].t) THEN [a |-> i, b |-> i + 1]
  ELSE lerpCamLoop(kf, p, i + 1)

\* the indices of the keyframes a and b that lerpCam interpolates between
lerpCamPair(p) == lerpCamLoop(CAM_KF, p, 1)

\* smoothstep with the factor 2 dropped: raw * raw * (3 - raw)
smoothstep_noTwo(raw) == RMul(RMul(raw, raw), RSub(<<3, 1>>, raw))

\* const s = raw * raw * (3 - 2 * raw)
smoothstep(raw) == RMul(RMul(raw, raw), RSub(<<3, 1>>, RMul(<<2, 1>>, raw)))

\* raw without the division by the range: p - a.t
lerpCamRaw_notDivided(elapsed, range) ==
  IF RLt(Zero, range) THEN elapsed ELSE Zero

\* const raw = range > 0 ? (p - a.t) / range : 0
lerpCamRaw(elapsed, range) ==
  IF RLt(Zero, range) THEN RDiv(elapsed, range) ELSE Zero

\* out.pos.lerpVectors(a.pos, b.pos, s); out.target.lerpVectors(...)
lerpCamOut(a, b, s) ==
  [pos    |-> lerpVectors(a.pos, b.pos, s),
   target |-> lerpVectors(a.target, b.target, s)]

\* the statements of lerpCam after the loop, for the keyframes a and b
lerpCamBetween(p, a, b) ==
  lerpCamOut(a, b, smoothstep(lerpCamRaw(RSub(p, a.t), RSub(b.t, a.t))))

\* lerpCam for the clamped progress p and the pair ab found by the loop
lerpCamAt(kf, p, ab) == lerpCamBetween(p, kf[ab.a], kf[ab.b])

\* lerpCam for the clamped progress p
lerpCamClamped(p) == lerpCamAt(CAM_KF, p, lerpCamPair(p))

lerpCam(progress) == lerpCamClamped(lerpCamClamp(progress))

(***************************************************************************)
(* Progress-to-uniform mapper                                              *)
(***************************************************************************)
\* focus with the ramp starting at 0.7: (sp - 0.7) / 0.2
focus_earlyRamp(sp) == Clamp01(RDiv(RSub(sp, Q(7, 10)), Q(2, 10)))

\* const focus = Math.max(0, Math.min(1, (sp - 0.8) / 0.2))
focus(sp) == Clamp01(RDiv(RSub(sp, Q(8, 10)), Q(2, 10)))

\* connFrag activation with the layer term added instead of subtracted
connActivation_plusLayer(uScroll, vLayerProgress) ==
  Clamp01(RAdd(RMul(RSub(uScroll, Q(5, 100)), Q(25, 10)),
               RMul(vLayerProgress, Q(6, 10))))

\* connFrag main: activation of a connection fragment
connActivation(uScroll, vLayerProgress) ==
  Clamp01(RSub(RMul(RSub(uScroll, Q(5, 100)), Q(25, 10)),
               RMul(vLayerProgress, Q(6, 10))))

\* nodeFrag main: activation of a node fragment
nodeActivation(uScroll, vNodeLayer) ==
  Clamp01(RSub(RMul(RSub(uScroll, Q(5, 100)), Q(25, 10)),
               RMul(vNodeLayer, Q(6, 10))))

\* GLSL mix(x, y, a) = x * (1 - a) + y * a, per component
glslMix(x, y, a) == [k \in 1..3 |-> RAdd(RMul(x[k], RSub(One, a)), RMul(y[k], a))]

\* the four colour stops of connFrag's heatmap
connStops ==
  [darkBlue  |-> Vec3(Zero, <<3, 50>>, <<2, 5>>),
   blue      |-> Vec3(Zero, <<169, 1000>>, One),
   lightBlue |-> Vec3(<<1, 5>>, <<9, 20>>, One),
   bright    |-> Vec3(<<1, 2>>, <<7, 10>>, One)]

\* the thresholds 0.33 and 0.66 of connFrag's heatmap and the width 0.34 of
\* its last band
connThresholds == [low |-> <<33, 100>>, high |-> <<33, 50>>, last |-> <<17, 50>>]

\* the three returns of connFrag's heatmap, for s = clamp(t, 0.0, 1.0)
connHeatmapAt(s, c, th) ==
  IF RLt(s, th.low) THEN glslMix(c.darkBlue, c.blue, RDiv(s, th.low))
  ELSE IF RLt(s, th.high)
    THEN glslMix(c.blue, c.lightBlue, RDiv(RSub(s, th.low), th.low))
  ELSE glslMix(c.lightBlue, c.bright, RDiv(RSub(s, th.high), th.last))

\* connFrag: vec3 heatmap(float t)
connHeatmap(t) == connHeatmapAt(Clamp01(t), connStops, connThresholds)

\* the four colour stops of nodeFrag's heatmap
nodeStops ==
  [darkBlue  |-> Vec3(Zero, <<3, 50>>, <<2, 5>>),
   blue      |-> Vec3(Zero, <<169, 1000>>, One),
   lightBlue |-> Vec3(<<1, 5>>, <<9, 20>>, One),
   bright    |-> Vec3(<<1, 2>>, <<7, 10>>, One)]

\* the thresholds 0.33 and 0.66 of nodeFrag's heatmap and the width 0.34 of
\* its last band
nodeThresholds == [low |-> <<33, 100>>, high |-> <<33, 50>>, last |-> <<17, 50>>]

\* a heatmap of three stops: blue is mixed straight into bright
nodeHeatmapAt_noLightBlue(s, c, th) ==
  IF RLt(s, th.low) THEN glslMix(c.darkBlue, c.blue, RDiv(s, th.low))
  ELSE glslMix(c.blue, c.bright, RDiv(RSub(s, th.low), RSub(One, th.low)))

\* the three returns of nodeFrag's heatmap, for s = clamp(t, 0.0, 1.0)
nodeHeatmapAt(s, c, th) ==
  IF RLt(s, th.low) THEN glslMix(c.darkBlue, c.blue, RDiv(s, th.low))
  ELSE IF RLt(s, th.high)
    THEN glslMix(c.blue, c.lightBlue, RDiv(RSub(s, th.low), th.low))
  ELSE glslMix(c.lightBlue, c.bright, RDiv(RSub(s, th.high), th.last))

\* nodeFrag: vec3 heatmap(float t)
nodeHeatmap(t) == nodeHeatmapAt(Clamp01(t), nodeStops, nodeThresholds)

\* fadeRange whose trailing ramp is measured from the wrong side:
\* (sp - fadeEnd) / fadeW
fadeRange_trailingSign(sp, center, halfHold, fadeW) ==
  LET fadeStart == RSub(RSub(center, halfHold), fadeW)
      fadeEnd   == RAdd(RAdd(center, halfHold), fadeW)
  IN  IF RLt(sp, fadeStart) \/ RLt(fadeEnd, sp) THEN Zero
      ELSE IF RLt(sp, RSub(center, halfHold))
        THEN RDiv(RSub(sp, fadeStart), fadeW)
      ELSE IF RLe(sp, RAdd(center, halfHold)) THEN One
      ELSE RDiv(RSub(sp, fadeEnd), fadeW)

\* Overlay's fadeRange closure; sp is the captured scroll progress
fadeRange(sp, center, halfHold, fadeW) ==
  LET fadeStart == RSub(RSub(center, halfHold), fadeW)
      fadeEnd   == RAdd(RAdd(center, halfHold), fadeW)
  IN  IF RLt(sp, fadeStart) \/ RLt(fadeEnd, sp) THEN Zero
      ELSE IF RLt(sp, RSub(center, halfHold))
        THEN RDiv(RSub(sp, fadeStart), fadeW)
      ELSE IF RLe(sp, RAdd(center, halfHold)) THEN One
      ELSE RDiv(RSub(fadeEnd, sp), fadeW)

(***************************************************************************)
(* Deterministic sampler                                                   *)
(***************************************************************************)
\* Math.sin is not expressible over the rationals: srandSamples holds the
\* pairs <<seed, floor(100 * (x - Math.floor(x)))>> with
\* x = Math.sin(seed + 1.0) * 10000, for every seed that the bounded
\* configurations below pass to srand
srandSamples ==
  { <<5, 84>>, <<7, 58>>, <<8, 18>>, <<9, 78>>, <<13, 7>>, <<16, 2>>,
    <<18, 77>>, <<19, 45>>, <<31, 26>>, <<42, 25>>, <<49, 25>>, <<56, 64>>,
    <<63, 26>>, <<66, 80>>, <<69, 90>>, <<82, 64>>, <<95, 87>>, <<99, 34>>,
    <<100, 25>>, <<101, 26>>, <<107, 18>>, <<108, 42>>, <<109, 57>>, <<113, 80>>,
    <<116, 2>>, <<119, 11>>, <<129, 94>>, <<130, 96>>, <<131, 83>>, <<142, 54>>,
    <<149, 23>>, <<156, 51>>, <<159, 25>>, <<160, 92>>, <<161, 49>>, <<172, 89>>,
    <<185, 76>>, <<207, 67>>, <<208, 66>>, <<209, 18>>, <<236, 42>>, <<242, 90>>,
    <<249, 71>>, <<256, 42>>, <<262, 52>>, <<342, 1>>, <<349, 67>>, <<356, 15>>,
    <<399, 80>>, <<400, 24>>, <<401, 56>>, <<429, 53>>, <<430, 67>>, <<431, 80>>,
    <<459, 42>>, <<460, 21>>, <<461, 88>>, <<513, 90>>, <<516, 44>>, <<519, 4>>,
    <<563, 35>>, <<566, 48>>, <<569, 48>>, <<613, 1>>, <<616, 1>>, <<619, 76>>,
    <<699, 70>>, <<700, 26>>, <<701, 32>>, <<729, 69>>, <<730, 22>>, <<731, 88>>,
    <<759, 83>>, <<760, 73>>, <<761, 17>>, <<999, 79>>, <<1000, 90>>, <<1001, 66>>,
    <<1002, 58>>, <<1003, 5>>, <<1004, 75>>, <<1005, 7>>, <<1006, 61>>, <<1007, 83>>,
    <<1008, 71>>, <<1009, 42>>, <<1010, 85>>, <<1011, 8>>, <<1013, 62>>, <<1016, 3>>,
    <<1019, 56>>, <<1063, 22>>, <<1066, 40>>, <<1069, 98>>, <<1107, 24>>, <<1108, 7>>,
    <<1109, 48>>, <<1113, 25>>, <<1116, 87>>, <<1119, 53>>, <<1207, 40>>, <<1208, 42>>,
    <<1209, 74>>, <<2000, 95>>, <<2001, 36>>, <<2002, 11>>, <<2003, 79>>, <<2007, 30>>,
    <<2008, 75>>, <<2009, 36>>, <<2010, 72>>, <<2014, 5>>, <<2015, 31>>, <<2016, 61>>,
    <<2017, 78>>, <<2021, 49>>, <<2022, 96>>, <<2023, 66>>, <<2024, 91>>, <<2107, 70>>,
    <<2108, 45>>, <<2109, 28>>, <<2207, 23>>, <<2208, 25>>, <<2209, 91>> }

\* the tabulated samples as a function of the seed
srandHundredths ==
  [seed \in {s[1] : s \in srandSamples} |->
     (CHOOSE s \in srandSamples : s[1] = seed)[2]]

\* srand(seed), truncated to two decimals: a value in [0, 1)
srand(seed) == Q(srandHundredths[seed], 100)

(***************************************************************************)
(* Topology generator                                                      *)
(***************************************************************************)
LAYER_SPACING == Q(45, 10)

NODE_Y_SPACING == Q(12, 10)

CURVE_SEGMENTS == 3

\* position of node i of layer l (both counted from 0) in a configuration L
NodePos(L, l, i) ==
  LET n == L[l + 1]
      x == RMul(RSub(Q(l, 1), RDiv(Q(Len(L) - 1, 1), Q(2, 1))), LAYER_SPACING)
      y == RMul(RSub(Q(i, 1), RDiv(Q(n - 1, 1), Q(2, 1))), NODE_Y_SPACING)
      z == RMul(RSub(srand(l * 100 + i * 7 + 42), Q(1, 2)), Q(3, 1))
  IN  Vec3(x, y, z)

\* nodes[l][i]: one column of positions per layer
BuildNodes(L) ==
  [l1 \in 1..Len(L) |-> [i1 \in 1..L[l1] |-> NodePos(L, l1 - 1, i1 - 1)]]

\* layerValues divided by the number of layers: l / LAYERS.length
NodeLayerValue_byLength(L, l) == RDiv(Q(l, 1), Q(Len(L), 1))

\* layerValues.push(l / (LAYERS.length - 1))
NodeLayerValue(L, l) == RDiv(Q(l, 1), Q(Len(L) - 1, 1))

\* the node loop pushes one entry per node, layer by layer: the sequence of
\* (l, i) pairs in push order
RECURSIVE NodeOrder(_, _, _)
NodeOrder(L, l, i) ==
  IF l >= Len(L) THEN <<>>
  ELSE IF i >= L[l + 1] THEN NodeOrder(L, l + 1, 0)
  ELSE <<[l |-> l, i |-> i]>> \o NodeOrder(L, l, i + 1)

\* sub-segments that divide the curve by CURVE_SEGMENTS + 1: the last one
\* stops short of the target node
SegmentT_shortStep(seg) ==
  [t0 |-> RDiv(<<seg, 1>>, <<CURVE_SEGMENTS + 1, 1>>),
   t1 |-> RDiv(<<seg + 1, 1>>, <<CURVE_SEGMENTS + 1, 1>>)]

\* the two end points of sub-segment seg on the curve parameter: t0 and t1
SegmentT(seg) ==
  [t0 |-> RDiv(<<seg, 1>>, <<CURVE_SEGMENTS, 1>>),
   t1 |-> RDiv(<<seg + 1, 1>>, <<CURVE_SEGMENTS, 1>>)]

\* quadratic bezier u^2 s + 2 u t c + t^2 e with u = 1 - t, one coordinate
BezierAt(s, c, e, t, u) ==
  RAdd(RAdd(RMul(RMul(u, u), s), RMul(RMul(RMul(<<2, 1>>, u), t), c)),
       RMul(RMul(t, t), e))

Bezier(s, c, e, t) == BezierAt(s, c, e, t, RSub(One, t))

\* const segLP = layerProgress + ((t0 + t1) * 0.5) / (layerCount - 2)
SegLP(layerProgress, layerCount, tt) ==
  RAdd(layerProgress,
       RDiv(RMul(RAdd(tt.t0, tt.t1), <<1, 2>>), <<layerCount - 2, 1>>))

\* one sub-segment of a connection: its two vertices and its layerProgress
CurveSegmentAt(s, c, e, layerProgress, layerCount, tt) ==
  [v0 |-> [k \in 1..3 |-> Bezier(s[k], c[k], e[k], tt.t0)],
   v1 |-> [k \in 1..3 |-> Bezier(s[k], c[k], e[k], tt.t1)],
   segLP |-> SegLP(layerProgress, layerCount, tt)]

CurveSegment(s, c, e, layerProgress, layerCount, seg) ==
  CurveSegmentAt(s, c, e, layerProgress, layerCount, SegmentT(seg))

\* const layerProgress = l / (layerCount - 2)
ConnLayerProgress(l, layerCount) == RDiv(<<l, 1>>, <<layerCount - 2, 1>>)

\* the control point of the curve from s to e, bent by r and rz
ControlPoint(s, e, r, rz) ==
  Vec3(RMul(RAdd(s[1], e[1]), <<1, 2>>),
       RAdd(RMul(RAdd(s[2], e[2]), <<1, 2>>), RMul(RSub(r, <<1, 2>>), <<9, 5>>)),
       RAdd(RMul(RAdd(s[3], e[3]), <<1, 2>>), RMul(RSub(rz, <<1, 2>>), <<2, 1>>)))

\* what one pass through the if of buildCurvedConnections pushes, for the end
\* points s and e, the layerProgress, the random r and the control point c
ConnectionAt(layerCount, l, i, j, s, e, layerProgress, r, c) ==
  [l |-> l, i |-> i, j |-> j,
   start |-> s, end |-> e, layerNorm |-> layerProgress, r |-> r, ctrl |-> c,
   segs |-> [g \in 1..CURVE_SEGMENTS |->
               CurveSegment(s, c, e, layerProgress, layerCount, g - 1)]]

ConnectionFrom(layerCount, l, i, j, s, e, r, rz) ==
  ConnectionAt(layerCount, l, i, j, s, e, ConnLayerProgress(l, layerCount), r,
               ControlPoint(s, e, r, rz))

\* the body of the if in buildCurvedConnections for the pair (l, i, j)
Connection(nodes, layerCount, l, i, j) ==
  ConnectionFrom(layerCount, l, i, j, nodes[l + 1][i + 1], nodes[l + 2][j + 1],
                 srand(l * 500 + i * 50 + j * 3 + 13),
                 srand(l * 300 + i * 30 + j + 99))

\* if (srand(l * 1000 + i * 100 + j + 7) > 0.55)
Included(l, i, j) == RLt(Q(55, 100), srand(l * 1000 + i * 100 + j + 7))

\* the three nested loops of buildCurvedConnections, from (l, i, j) on: the
\* included connections in the order they are pushed
RECURSIVE ConnLoop(_, _, _, _, _)
ConnLoop(nodes, layerCount, l, i, j) ==
  IF l >= Len(nodes) - 1 THEN <<>>
  ELSE IF i >= Len(nodes[l + 1]) THEN ConnLoop(nodes, layerCount, l + 1, 0, 0)
  ELSE IF j >= Len(nodes[l + 2]) THEN ConnLoop(nodes, layerCount, l, i + 1, 0)
  ELSE (IF Included(l, i, j)
          THEN <<Connection(nodes, layerCount, l, i, j)>> ELSE <<>>)
       \o ConnLoop(nodes, layerCount, l, i, j + 1)

\* concatenation of the sequences f[1], f[2], ...
RECURSIVE Flatten(_)
Flatten(f) == IF f = <<>> THEN <<>> ELSE Head(f) \o Flatten(Tail(f))

\* the flat buffers and the connection records built from the pushed
\* connections cs
ConnBuffers(cs) ==
  [verts |-> Flatten([n \in 1..Len(cs) |->
               Flatten([g \in 1..CURVE_SEGMENTS |->
                  cs[n].segs[g].v0 \o cs[n].segs[g].v1])]),
   lp    |-> Flatten([n \in 1..Len(cs) |->
               Flatten([g \in 1..CURVE_SEGMENTS |->
                  <<cs[n].segs[g].segLP, cs[n].segs[g].segLP>>])]),
   rands |-> Flatten([n \in 1..Len(cs) |->
               Flatten([g \in 1..CURVE_SEGMENTS |-> <<cs[n].r, cs[n].r>>])]),
   conns |-> [n \in 1..Len(cs) |->
               [start |-> cs[n].start, end |-> cs[n].end,
                layerNorm |-> cs[n].layerNorm]]]

\* buildCurvedConnections(nodes, layerCount)
buildCurvedConnections(nodes, layerCount) ==
  ConnBuffers(ConnLoop(nodes, layerCount, 0, 0, 0))

\* Math.floor(srand(i * 3 + 999) * conns.length) % conns.length: NaN when
\* the connection list is empty (0 % 0), an index counted from 0 otherwise
ParticleCi(i, nConns) ==
  IF nConns = 0 THEN NaN
  ELSE Q(Floor(RMul(srand(i * 3 + 999), Q(nConns, 1))) % nConns, 1)

Particle(i, nConns) ==
  [ci     |-> ParticleCi(i, nConns),
   speed  |-> RAdd(Q(8, 100), RMul(srand(i * 3 + 1000), Q(35, 100))),
   offset |-> srand(i * 3 + 1001),
   size   |-> RAdd(Q(2, 100), RMul(srand(i * 3 + 1002), Q(4, 100)))]

DustPosition(i) ==
  [x |-> RMul(RSub(srand(i * 7 + 2000), Q(1, 2)), Q(50, 1)),
   y |-> RMul(RSub(srand(i * 7 + 2001), Q(1, 2)), Q(30, 1)),
   z |-> RMul(RSub(srand(i * 7 + 2002), Q(1, 2)), Q(20, 1)),
   r |-> srand(i * 7 + 2003)]

\* the object the data useMemo returns, for the node columns, the push
\* order of the nodes and the result of buildCurvedConnections
DataOf(L, nParticles, nDust, nodes, order, built) ==
  [nodes         |-> nodes,
   flat          |-> [n \in 1..Len(order) |->
                        nodes[order[n].l + 1][order[n].i + 1]],
   layerValues   |-> [n \in 1..Len(order) |-> NodeLayerValue(L, order[n].l)],
   nodeRands     |-> [n \in 1..Len(order) |->
                        srand(order[n].l * 77 + order[n].i * 13 + 5)],
   conns         |-> built.conns,
   verts         |-> built.verts,
   lp            |-> built.lp,
   rands         |-> built.rands,
   particles     |-> [n \in 1..nParticles |-> Particle(n - 1, Len(built.conns))],
   dustPositions |-> [n \in 1..nDust |-> DustPosition(n - 1)],
   total         |-> Len(order)]

DataFrom(L, nParticles, nDust, nodes) ==
  DataOf(L, nParticles, nDust, nodes, NodeOrder(L, 0, 0),
         buildCurvedConnections(nodes, Len(L)))

\* the value of the data useMemo for the layer configuration L with
\* nParticles traveling particles and nDust dust instances
BuildData(L, nParticles, nDust) ==
  DataFrom(L, nParticles, nDust, BuildNodes(L))

(***************************************************************************)
(* Bounds of the model                                                     *)
(***************************************************************************)
\* layer configurations have 2..MaxLayers layers of 1 or MaxNodes nodes
MaxLayers == 3

MaxNodes == 2

\* number of traveling particles and of dust instances (120 and 80 in the
\* source), scaled down
PARTICLE_COUNT == 2

DUST_COUNT == 2

\* number of frame callbacks a behaviour runs
MaxFrames == 2

\* the pure functions are applied to progress values from -OutOfRange/100 to
\* (100 + OutOfRange)/100 in steps of 1/100
OutOfRange == 5

\* every layer is as narrow or as wide as the bounds allow
Configs == UNION {[1..n -> {1, MaxNodes}] : n \in 2..MaxLayers}

\* window.scrollY and the page's maximal scroll offset, in pixels
ScrollYs == {-10, 90, 120}

MaxScrolls == {0, 100}

\* time between two frame callbacks, in seconds
FrameGaps == {Q(1, 120), Q(1, 60)}

UnitProgress == {Q(k, 100) : k \in (0 - OutOfRange)..(100 + OutOfRange)}

UnitLayerProgress == {Q(k, 10) : k \in 0..10}

\* progress values the activation of the shaders is evaluated at
ActProgress == {Q(k, 20) : k \in (0 - 1)..21}

\* elapsed times, in quarters of a second, and particle attributes the
\* interpolation parameter is evaluated at; the generator draws speed from
\* [0.08, 0.43) and offset from [0, 1)
ParticleTimes == {Q(k, 4) : k \in (0 - 2)..12}

ParticleAttrs ==
  {[speed |-> sp, offset |-> off] :
     sp \in {Q(2, 5), Q(1, 10), Q(-2, 5)}, off \in {Q(-3, 10), Zero, Q(7, 10)}}

\* (center, halfHold, fadeW) of chatOp and filesOp in Overlay, of the window
\* centred at 0.5, and of one window with a hold different from its fade
FadeWindows ==
  { <<Q(48, 100), Q(5, 100), Q(5, 100)>>, <<Q(17, 100), Q(5, 100), Q(5, 100)>>,
    <<Q(50, 100), Q(5, 100), Q(5, 100)>>, <<Q(50, 100), Q(10, 100), Q(20, 100)>> }

(***************************************************************************)
(* FloatingChat: the script, the mount state and the browser's timer pool   *)
(***************************************************************************)
\* characters of a message text that the model keeps
MaxTextLen == 2

\* the text of message i, cut to MaxTextLen characters; a character is named
\* by its message and its position
ChatText(i) == [k \in 1..MaxTextLen |-> <<i, k>>]

CHAT_MESSAGES ==
  << [role |-> "user", text |-> ChatText(1)],
     [role |-> "ai",   text |-> ChatText(2)],
     [role |-> "user", text |-> ChatText(3)],
     [role |-> "ai",   text |-> ChatText(4)],
     [role |-> "user", text |-> ChatText(5)],
     [role |-> "ai",   text |-> ChatText(6)] >>

\* the component as mounted with prop visible: the three states, the two
\* refs (0 for null), no effect run yet (deps is empty, no cleanup function
\* registered), no timer alive
ChatMount(visible) ==
  [visible |-> visible, displayedMessages |-> 0, typingText |-> <<>>,
   isTyping |-> FALSE, intervalRef |-> 0, timeoutRef |-> 0,
   deps |-> <<>>, cleanup |-> FALSE, intervals |-> {}, timeouts |-> {}]

\* the handles in use: those of the live timers and those a ref still holds
TimerIds(c) ==
  {i.id : i \in c.intervals} \cup {t.id : t \in c.timeouts}
    \cup {c.intervalRef, c.timeoutRef}

\* the handle setTimeout / setInterval returns: a positive integer that names
\* no live timer; the pool never re-issues a handle, so it also differs from
\* every handle a ref still holds
NewTimer(c) ==
  CHOOSE n \in 1..(Cardinality(TimerIds(c)) + 1) :
    n \notin TimerIds(c) /\ \A m \in 1..(n - 1) : m \in TimerIds(c)

\* clearInterval(id) / clearTimeout(id): the timer of that handle, if alive,
\* never runs again (both calls act on the one pool of handles)
ClearTimer(c, id) ==
  [c EXCEPT !.intervals = {i \in @ : i.id # id},
            !.timeouts = {t \in @ : t.id # id}]

(***************************************************************************)
(* State                                                                   *)
(***************************************************************************)
VARIABLES
  LAYERS,          \* the layer configuration
  data,            \* the memoized topology (data useMemo)
  scrollProgress,  \* Home's scrollProgress state
  spRef,           \* spRef.current
  clock,           \* state.clock.getElapsedTime() at the latest callback
  connMat,         \* uniforms of the connection material
  nodeMat,         \* uniforms of the node material
  dustMat,         \* uniforms of the dust material
  particleMat,     \* lightness of the HSL colour and opacity
  inited,          \* inited.current
  dustInited,      \* dustInited.current
  nodeMatrix,      \* instance transforms of the node mesh
  dustMatrix,      \* instance transforms of the dust mesh
  particleMatrix,  \* instance transforms of the particle mesh
  groupRot,        \* elapsed time the group rotation was computed from
  glow,            \* focus and time the glow opacity was computed from; scale
  camOut,          \* the re-used output object of lerpCam
  smoothPos,       \* smoothing accumulator of the camera position
  smoothTgt,       \* smoothing accumulator of the camera target
  camera,          \* render camera: position and lookAt target
  frame,           \* locals of the latest frame callback, and how many ran
  call,            \* latest application of a pure function (unit harness)
  chat             \* FloatingChat: prop, state, refs and the browser's timers

topoVars == <<LAYERS, data>>

homeVars == <<scrollProgress, spRef>>

frameVars == <<clock, connMat, nodeMat, dustMat, particleMat, inited, dustInited,
               nodeMatrix, dustMatrix, particleMatrix, groupRot, glow, camOut,
               smoothPos, smoothTgt, camera, frame>>

vars == <<LAYERS, data, scrollProgress, spRef, clock, connMat, nodeMat, dustMat,
          particleMat, inited, dustInited, nodeMatrix, dustMatrix,
          particleMatrix, groupRot, glow, camOut, smoothPos, smoothTgt, camera,
          frame, call, chat>>

\* the refs are attached when React commits the component, before the first
\* frame callback is invoked
nodesRefCurrent == TRUE

dustRefCurrent == TRUE

groupRefCurrent == TRUE

particlesRefCurrent == TRUE

glowRefCurrent == TRUE

\* an instance transform nobody has written yet; writes counts the calls of
\* setMatrixAt for the instance
UnsetMatrix == [set |-> FALSE, position |-> Vec3(Zero, Zero, Zero),
                scale |-> Zero, writes |-> 0]

NoCall ==
  [fn |-> "none", p |-> Zero, lp |-> Zero, win |-> <<Zero, Zero, Zero>>,
   out |-> Zero, pose |-> [pos |-> Vec3(Zero, Zero, Zero),
                          target |-> Vec3(Zero, Zero, Zero)],
   pair |-> [a |-> 0, b |-> 0],
   pd |-> [speed |-> Zero, offset |-> Zero],
   colors |-> [conn |-> Vec3(Zero, Zero, Zero), node |-> Vec3(Zero, Zero, Zero)]]

InitScene(L) ==
  /\ LAYERS = L
  /\ data = BuildData(L, PARTICLE_COUNT, DUST_COUNT)
  /\ scrollProgress = Zero
  /\ spRef = Zero
  /\ clock = Zero
  /\ connMat = [uScroll |-> Zero, uTime |-> Zero, uFocus |-> Zero]
  /\ nodeMat = [uScroll |-> Zero, uTime |-> Zero, uFocus |-> Zero]
  /\ dustMat = [uScroll |-> Zero, uTime |-> Zero]
  /\ particleMat = [lightness |-> Q(1, 2), opacity |-> Q(7, 10)]
  /\ inited = FALSE
  /\ dustInited = FALSE
  /\ nodeMatrix = [n \in 1..data.total |-> UnsetMatrix]
  /\ dustMatrix = [n \in 1..DUST_COUNT |-> UnsetMatrix]
  /\ particleMatrix = [n \in 1..PARTICLE_COUNT |-> UnsetMatrix]
  /\ groupRot = [set |-> FALSE, t |-> Zero]
  /\ glow = [focus |-> Zero, t |-> Zero, scale |-> One]
  /\ camOut = [pos |-> Vec3(Q(0, 1), Q(2, 1), Q(36, 1)),
               target |-> Vec3(Zero, Zero, Zero)]
  /\ smoothPos = Vec3(Q(0, 1), Q(2, 1), Q(36, 1))
  /\ smoothTgt = Vec3(Zero, Zero, Zero)
  /\ camera = [position |-> Vec3(Q(0, 1), Q(0, 1), Q(28, 1)),
               lookAt |-> Vec3(Zero, Zero, Zero)]
  /\ frame = [n |-> 0, t |-> Zero, sp |-> Zero, focus |-> Zero, frameIdx |-> 0,
              nodeInit |-> FALSE, dustInit |-> FALSE, particles |-> FALSE]
  /\ call = NoCall
  /\ chat = ChatMount(fadeRange(Zero, <<12, 25>>, <<1, 20>>, <<1, 20>>))

Init == \E L \in Configs : InitScene(L)

(***************************************************************************)
(* Home: scroll listener and re-render                                     *)
(***************************************************************************)
handleScroll(scrollY, maxScroll) ==
  LET progress == IF maxScroll > 0 THEN RDiv(Q(scrollY, 1), Q(maxScroll, 1))
                  ELSE Zero
  IN  /\ scrollProgress' = RMin(One, RMax(Zero, progress))
      /\ UNCHANGED <<topoVars, spRef, frameVars, call, chat>>

\* NeuralNetwork renders with the new prop: spRef.current = scrollProgress
Render ==
  /\ spRef # scrollProgress
  /\ spRef' = scrollProgress
  /\ UNCHANGED <<topoVars, scrollProgress, frameVars, call, chat>>

(***************************************************************************)
(* Frame driver: the useFrame callback                                     *)
(***************************************************************************)
\* data.conns[ci]: the record, or undefined for an index that names no entry
HasConn(d, ci) == IsFinite(ci) /\ ci[2] = 1 /\ ci[1] >= 0 /\ ci[1] < Len(d.conns)

\* pt with a single remainder: (t * pd.speed + pd.offset) % 1
ParticleT_singleMod(t, pd) == Mod1(RAdd(RMul(t, pd.speed), pd.offset))

\* const pt = ((t * pd.speed + pd.offset) % 1 + 1) % 1
ParticleT(t, pd) == Mod1(RAdd(Mod1(RAdd(RMul(t, pd.speed), pd.offset)), One))

\* the transform the particle loop writes for particle pd
ParticleTransform(d, pd, t, sp, old) ==
  LET c   == d.conns[pd.ci[1] + 1]
      pt  == ParticleT(t, pd)
      vis == IF RLt(Q(4, 100), sp) THEN RAdd(pd.size, RMul(sp, Q(3, 100)))
             ELSE Zero
  IN  [set |-> TRUE, position |-> lerpVectors(c.start, c.end, pt),
       scale |-> vis, writes |-> old.writes + 1]

\* lerp that steps from the target back towards this: v + (this - v) * alpha
Vec3Lerp_fromTarget(this, v, alpha) ==
  [k \in 1..3 |-> RAdd(v[k], RMul(RSub(this[k], v[k]), alpha))]

\* THREE.Vector3.lerp(v, alpha): this += (v - this) * alpha
Vec3Lerp(this, v, alpha) ==
  [k \in 1..3 |-> RAdd(this[k], RMul(RSub(v[k], this[k]), alpha))]

\* the node placement guard without the flag: if (nodesRef.current)
NodeInitGuard_noFlag(initedCurrent) == nodesRefCurrent

\* if (!inited.current && nodesRef.current)
NodeInitGuard(initedCurrent) == ~initedCurrent /\ nodesRefCurrent

\* if (!dustInited.current && dustRef.current)
DustInitGuard(dustInitedCurrent) == ~dustInitedCurrent /\ dustRefCurrent

\* the three assignments to connMat.uniforms
ConnUniforms(sp, t, fc) == [uScroll |-> sp, uTime |-> t, uFocus |-> fc]

\* nodeMat without the assignment to uFocus: it keeps its initial 0
NodeUniforms_noFocus(sp, t, fc) == [uScroll |-> sp, uTime |-> t, uFocus |-> Zero]

\* the three assignments to nodeMat.uniforms
NodeUniforms(sp, t, fc) == [uScroll |-> sp, uTime |-> t, uFocus |-> fc]

\* the two assignments to dustMat.uniforms; the material has no uFocus
DustUniforms(sp, t) == [uScroll |-> sp, uTime |-> t]

\* a skipped particle that is hidden instead: scale 0 written to its instance
SkippedParticle_hidden(old) ==
  [old EXCEPT !.set = TRUE, !.scale = Zero, !.writes = @ + 1]

\* if (!c) continue: no setMatrixAt for this instance
SkippedParticle(old) == old

\* a callback that consumes the progress it read: spRef.current = 0 unless
\* the page is scrolled to its end
FrameReadOnly_resetsProgress ==
  /\ spRef' = (IF RLt(spRef, One) THEN Zero ELSE spRef)
  /\ UNCHANGED <<topoVars, scrollProgress, call, chat>>

\* what the callback only reads: it assigns to no field of data, to neither
\* spRef.current nor the scrollProgress state
FrameReadOnly == UNCHANGED <<topoVars, homeVars, call, chat>>

\* the locals of one run of the callback: t, sp, focus, the two placement
\* guards, frameIdx and the guard of the particle loop
FrameLocals(n, t, sp, frameIdx) ==
  [n |-> n, t |-> t, sp |-> sp, focus |-> focus(sp), frameIdx |-> frameIdx,
   nodeInit |-> NodeInitGuard(inited), dustInit |-> DustInitGuard(dustInited),
   particles |-> particlesRefCurrent /\ frameIdx % 2 = 0]

\* the matrix and scale the dust loop writes for dust instance d
DustTransform(d, old) ==
  [set |-> TRUE, position |-> Vec3(d.x, d.y, d.z),
   scale |-> RAdd(<<1, 2>>, RMul(d.r, <<3, 2>>)), writes |-> old.writes + 1]

Frame(dt) ==
  /\ frame.n < MaxFrames
  /\ clock' = RAdd(clock, dt)
  /\ frame' = FrameLocals(frame.n + 1, clock', spRef,
                          Round(RMul(clock', <<60, 1>>)))
  \* init node instances
  /\ nodeMatrix' =
       IF frame'.nodeInit
         THEN [n \in 1..Len(data.flat) |->
                 [set |-> TRUE, position |-> data.flat[n], scale |-> One,
                  writes |-> nodeMatrix[n].writes + 1]]
         ELSE nodeMatrix
  /\ inited' = IF frame'.nodeInit THEN TRUE ELSE inited
  \* init dust instances
  /\ dustMatrix' =
       IF frame'.dustInit
         THEN [n \in 1..Len(data.dustPositions) |->
                 DustTransform(data.dustPositions[n], dustMatrix[n])]
         ELSE dustMatrix
  /\ dustInited' = IF frame'.dustInit THEN TRUE ELSE dustInited
  \* slow rotation of the entire network
  /\ groupRot' = IF groupRefCurrent THEN [set |-> TRUE, t |-> clock']
                 ELSE groupRot
  \* uniforms
  /\ connMat' = ConnUniforms(frame'.sp, clock', frame'.focus)
  /\ nodeMat' = NodeUniforms(frame'.sp, clock', frame'.focus)
  /\ dustMat' = DustUniforms(frame'.sp, clock')
  \* particles
  /\ particleMat' = [lightness |-> RAdd(<<9, 20>>, RMul(frame'.sp, <<1, 5>>)),
                     opacity   |-> RAdd(<<1, 5>>, RMul(frame'.sp, <<3, 5>>))]
  /\ particleMatrix' =
       IF frame'.particles
         THEN [n \in 1..PARTICLE_COUNT |->
                 IF HasConn(data, data.particles[n].ci)
                   THEN ParticleTransform(data, data.particles[n], clock',
                                          frame'.sp, particleMatrix[n])
                   ELSE SkippedParticle(particleMatrix[n])]
         ELSE particleMatrix
  \* output glow
  /\ glow' = IF glowRefCurrent
               THEN [focus |-> frame'.focus, t |-> clock',
                     scale |-> RAdd(<<3, 10>>, RMul(frame'.focus, <<4, 1>>))]
               ELSE glow
  \* camera
  /\ camOut' = lerpCam(frame'.sp)
  /\ smoothPos' = Vec3Lerp(smoothPos, camOut'.pos, <<3, 100>>)
  /\ smoothTgt' = Vec3Lerp(smoothTgt, camOut'.target, <<3, 100>>)
  /\ camera' = [position |-> smoothPos', lookAt |-> smoothTgt']
  /\ FrameReadOnly

Next ==
  \/ \E y \in ScrollYs, m \in MaxScrolls : handleScroll(y, m)
  \/ Render
  \/ \E dt \in FrameGaps : Frame(dt)

Spec == Init /\ [][Next]_vars

(***************************************************************************)
(* Driver harness: the NeuralNetwork component rendered by any parent, with *)
(* any number as its scrollProgress prop and any layer constant            *)
(***************************************************************************)
\* values of the scrollProgress prop, in twentieths: below 0, inside [0, 1]
\* and above 1
DriverProgress == {Q(k, 20) : k \in {-2, 1, 18, 24}}

\* layer constants of one or two layers; with one layer no connection exists
DriverConfigs == UNION {[1..n -> {1, MaxNodes}] : n \in 1..2}

InitDriver == \E L \in DriverConfigs : InitScene(L)

\* NeuralNetwork({ scrollProgress }): spRef.current = scrollProgress
RenderProp(prop) ==
  /\ spRef' = prop
  /\ UNCHANGED <<topoVars, scrollProgress, frameVars, call, chat>>

NextDriver ==
  \/ \E prop \in DriverProgress : RenderProp(prop)
  \/ \E dt \in FrameGaps : Frame(dt)

SpecDriver == InitDriver /\ [][NextDriver]_vars

(***************************************************************************)
(* Unit harness: the pure functions applied to arguments from bounded sets *)
(***************************************************************************)
mainVars == <<topoVars, homeVars, frameVars, chat>>

InitUnit == InitScene(<<2, 2, 1>>)

\* lerpCam(progress, out); pair records the locals a and b of the call
CallLerpCam(progress) ==
  /\ call.fn \in {"none", "lerpCam"}
  /\ call' = [NoCall EXCEPT !.fn = "lerpCam", !.p = progress,
                !.pose = lerpCam(progress),
                !.pair = lerpCamPair(lerpCamClamp(progress))]
  /\ UNCHANGED mainVars

\* the focus expression of the frame callback
CallFocus(sp) ==
  /\ call.fn \in {"none", "focus"}
  /\ call' = [NoCall EXCEPT !.fn = "focus", !.p = sp, !.out = focus(sp)]
  /\ UNCHANGED mainVars

\* the activation of connFrag
CallConnActivation(uScroll, vLayerProgress) ==
  /\ call.fn \in {"none", "connActivation"}
  /\ call' = [NoCall EXCEPT !.fn = "connActivation", !.p = uScroll,
                !.lp = vLayerProgress,
                !.out = connActivation(uScroll, vLayerProgress)]
  /\ UNCHANGED mainVars

\* the activation of nodeFrag
CallNodeActivation(uScroll, vNodeLayer) ==
  /\ call.fn \in {"none", "nodeActivation"}
  /\ call' = [NoCall EXCEPT !.fn = "nodeActivation", !.p = uScroll,
                !.lp = vNodeLayer,
                !.out = nodeActivation(uScroll, vNodeLayer)]
  /\ UNCHANGED mainVars

\* fadeRange(center, halfHold, fadeW) in an Overlay rendered with progress sp
CallFadeRange(sp, win) ==
  /\ call.fn \in {"none", "fadeRange"}
  /\ call' = [NoCall EXCEPT !.fn = "fadeRange", !.p = sp, !.win = win,
                !.out = fadeRange(sp, win[1], win[2], win[3])]
  /\ UNCHANGED mainVars

\* the interpolation parameter of the particle loop
CallParticleT(t, pd) ==
  /\ call.fn \in {"none", "particleT"}
  /\ call' = [NoCall EXCEPT !.fn = "particleT", !.p = t, !.pd = pd,
                !.out = ParticleT(t, pd)]
  /\ UNCHANGED mainVars

\* heatmap(activation) in the fragment shader of a connection and of a node
CallHeatmap(t) ==
  /\ call.fn \in {"none", "heatmap"}
  /\ call' = [NoCall EXCEPT !.fn = "heatmap", !.p = t,
                !.colors = [conn |-> connHeatmap(t), node |-> nodeHeatmap(t)]]
  /\ UNCHANGED mainVars

NextUnit ==
  \/ \E t \in UnitProgress : CallHeatmap(t)
  \/ \E t \in ParticleTimes, pd \in ParticleAttrs : CallParticleT(t, pd)
  \/ \E p \in UnitProgress : CallLerpCam(p)
  \/ \E p \in UnitProgress : CallFocus(p)
  \/ \E p \in ActProgress, lp \in UnitLayerProgress : CallConnActivation(p, lp)
  \/ \E p \in ActProgress, lp \in UnitLayerProgress : CallNodeActivation(p, lp)
  \/ \E p \in UnitProgress, w \in FadeWindows : CallFadeRange(p, w)

SpecUnit == InitUnit /\ [][NextUnit]_vars

(***************************************************************************)
(* FloatingChat: re-render with a new prop, the effect, the timer callbacks *)
(***************************************************************************)
\* scroll progress of the Overlay that renders the chat: before the section,
\* inside its fade-in below and at the threshold, and on its plateau
ChatProgress == {Zero, Q(39, 100), Q(79, 200), Q(48, 100)}

\* the cleanup function that forgets the advance timeout
EffectCleanup_keepsTimeout(c) == ClearTimer(c, c.intervalRef)

\* the function the effect returns: both refs cleared
EffectCleanup(c) == ClearTimer(ClearTimer(c, c.intervalRef), c.timeoutRef)

\* a hidden branch that keeps the count of displayed messages
EffectHidden_keepsCount(c) ==
  [ClearTimer(ClearTimer(c, c.intervalRef), c.timeoutRef)
     EXCEPT !.typingText = <<>>, !.isTyping = FALSE, !.cleanup = FALSE]

\* visible < 0.3: the three resets, both timers cleared, nothing returned
EffectHidden(c) ==
  [ClearTimer(ClearTimer(c, c.intervalRef), c.timeoutRef)
     EXCEPT !.displayedMessages = 0, !.typingText = <<>>, !.isTyping = FALSE,
            !.cleanup = FALSE]

\* displayedMessages >= CHAT_MESSAGES.length: nothing started, nothing returned
EffectComplete(c) == [c EXCEPT !.cleanup = FALSE]

\* a user message: the 800 ms timeout that shows it
EffectUser(c, id) ==
  [c EXCEPT !.timeoutRef = id,
            !.timeouts = @ \cup {[id |-> id, role |-> "user"]},
            !.cleanup = TRUE]

\* an ai message: isTyping, idx = 0 and the 18 ms interval that types it
EffectAi(c, id) ==
  [c EXCEPT !.isTyping = TRUE, !.intervalRef = id,
            !.intervals = @ \cup {[id |-> id, idx |-> 0,
                                   msg |-> c.displayedMessages + 1]},
            !.cleanup = TRUE]

\* the body of the effect, run with the visible and displayedMessages of the
\* render that is committed
EffectBody(c) ==
  IF RLt(c.visible, <<3, 10>>) THEN EffectHidden(c)
  ELSE IF c.displayedMessages >= Len(CHAT_MESSAGES) THEN EffectComplete(c)
  ELSE IF CHAT_MESSAGES[c.displayedMessages + 1].role = "user"
         THEN EffectUser(c, NewTimer(c))
         ELSE EffectAi(c, NewTimer(c))

\* one run of the effect: the cleanup the previous run returned, if any, then
\* the body; deps remembers the dependency values of this run
RunEffect(c) ==
  EffectBody([(IF c.cleanup THEN EffectCleanup(c) ELSE c)
                EXCEPT !.deps = <<c.visible, c.displayedMessages>>])

\* the callback of the 800 ms timeout
UserTimeout(c) == [c EXCEPT !.displayedMessages = @ + 1]

\* a 1200 ms callback that leaves the typed text in place
AiTimeout_keepsText(c) == [c EXCEPT !.displayedMessages = @ + 1]

\* the callback of the 1200 ms timeout
AiTimeout(c) == [c EXCEPT !.typingText = <<>>, !.displayedMessages = @ + 1]

\* the last tick of a message: the interval of intervalRef cleared, isTyping
\* false, the 1200 ms timeout started
TypingDone(c, id) ==
  [c EXCEPT !.isTyping = FALSE, !.timeoutRef = id,
            !.timeouts = @ \cup {[id |-> id, role |-> "ai"]}]

\* the callback of the 18 ms interval i, idx being its counter after idx++
IntervalCallback(c, i, idx) ==
  IF idx >= Len(CHAT_MESSAGES[i.msg].text)
    THEN TypingDone(ClearTimer(c, c.intervalRef),
                    NewTimer(ClearTimer(c, c.intervalRef)))
    ELSE c

\* Overlay re-renders with scroll progress sp and hands the chat a different
\* visible
ChatRender(sp) ==
  /\ chat.visible # fadeRange(sp, <<12, 25>>, <<1, 20>>, <<1, 20>>)
  /\ chat' = [chat EXCEPT
                !.visible = fadeRange(sp, <<12, 25>>, <<1, 20>>, <<1, 20>>)]
  /\ UNCHANGED <<topoVars, homeVars, frameVars, call>>

\* React runs the effect after a commit whose [visible, displayedMessages]
\* differ from those of the previous run (or after the mount)
ChatEffect ==
  /\ chat.deps # <<chat.visible, chat.displayedMessages>>
  /\ chat' = RunEffect(chat)
  /\ UNCHANGED <<topoVars, homeVars, frameVars, call>>

\* the browser fires a live timeout, once
ChatTimeout ==
  \E t \in chat.timeouts :
    /\ chat' = (IF t.role = "user"
                  THEN UserTimeout([chat EXCEPT !.timeouts = @ \ {t}])
                  ELSE AiTimeout([chat EXCEPT !.timeouts = @ \ {t}]))
    /\ UNCHANGED <<topoVars, homeVars, frameVars, call>>

\* the browser fires a live interval: idx++, the text typed so far, and the
\* end of the message when idx reaches its length
ChatInterval ==
  \E i \in chat.intervals :
    /\ chat' = IntervalCallback(
                 [chat EXCEPT
                    !.intervals = (@ \ {i}) \cup {[i EXCEPT !.idx = @ + 1]},
                    !.typingText = SubSeq(CHAT_MESSAGES[i.msg].text, 1,
                                          i.idx + 1)],
                 i, i.idx + 1)
    /\ UNCHANGED <<topoVars, homeVars, frameVars, call>>

InitChat == InitScene(<<2, 2, 1>>)

NextChat ==
  \/ \E sp \in ChatProgress : ChatRender(sp)
  \/ ChatEffect
  \/ ChatTimeout
  \/ ChatInterval

SpecChat == InitChat /\ [][NextChat]_vars

\* the browser runs a timer that is due and React flushes a pending effect
SpecChatFair ==
  /\ SpecChat
  /\ WF_vars(ChatEffect)
  /\ WF_vars(ChatTimeout)
  /\ WF_vars(ChatInterval)

(***************************************************************************)
(* Properties                                                              *)
(***************************************************************************)
\* x lies between a and b, whichever of the two is the larger
Between(a, x, b) == (RLe(a, x) /\ RLe(x, b)) \/ (RLe(b, x) /\ RLe(x, a))

KfPose(i) == [pos |-> CAM_KF[i].pos, target |-> CAM_KF[i].target]

LastKf == Len(CAM_KF)

C2_CamBracket ==
  call.fn = "lerpCam" =>
    LET pc == IF RLt(call.p, Zero) THEN Zero
              ELSE IF RLt(One, call.p) THEN One ELSE call.p
    IN  /\ call.pair.a \in 1..(LastKf - 1)
        /\ call.pair.b = call.pair.a + 1
        /\ RLe(CAM_KF[call.pair.a].t, pc)
        /\ RLe(pc, CAM_KF[call.pair.b].t)
        /\ RLt(call.p, Zero) => call.pose = KfPose(1)
        /\ RLt(One, call.p) => call.pose = KfPose(LastKf)

\* lerpCam was evaluated at a progress above 1 and answered the last keyframe
C2_Witness ==
  /\ call.fn = "lerpCam"
  /\ RLt(One, call.p)
  /\ call.pose = KfPose(LastKf)

\* the ramp the focus level is specified to follow
ExpectedFocus(p) ==
  IF RLe(p, Q(8, 10)) THEN Zero
  ELSE IF RLe(One, p) THEN One
  ELSE RSub(RMul(Q(5, 1), p), Q(4, 1))

C3_FocusValue ==
  call.fn = "focus" =>
    /\ call.out = ExpectedFocus(call.p)
    /\ call.p = Q(79, 100) => call.out = Zero
    /\ call.p = Q(9, 10) => call.out = Q(1, 2)
    /\ call.p = One => call.out = One

C3_FocusMonotone ==
  (call.fn = "focus" /\ call'.fn = "focus" /\ RLe(call.p, call'.p))
    => RLe(call.out, call'.out)

IsActivation == call.fn \in {"connActivation", "nodeActivation"}

In01(x) == RLe(Zero, x) /\ RLe(x, One)

C4_ActivationRange ==
  (IsActivation /\ In01(call.p) /\ In01(call.lp)) =>
    /\ In01(call.out)
    /\ call.out = Clamp01(RSub(RSub(RMul(Q(5, 2), call.p), Q(1, 8)),
                               RMul(Q(3, 5), call.lp)))

C4_ActivationMonotone ==
  (/\ IsActivation
   /\ call'.fn = call.fn
   /\ call'.p = call.p
   /\ RLe(call.lp, call'.lp))
    => RLe(call'.out, call.out)

\* C4: for every progress and layerProgress in [0, 1] the activation of both
\* shaders is clamp((progress - 0.05) * 2.5 - layerProgress * 0.6, 0, 1), lies
\* in [0, 1], and for a fixed progress is non-increasing in layerProgress.
C4_Activation == []C4_ActivationRange /\ [][C4_ActivationMonotone]_vars

\* a connection fragment of a middle layer is partly activated
C4_Witness ==
  /\ call.fn = "connActivation"
  /\ call.p = Q(1, 2)
  /\ call.lp = Q(1, 2)
  /\ RLt(Zero, call.out)
  /\ RLt(call.out, One)

RAbs(x) == IF x[1] < 0 THEN RNeg(x) ELSE x

C5_FadeShape ==
  call.fn = "fadeRange" =>
    LET c  == call.win[1]
        h  == call.win[2]
        w  == call.win[3]
        p  == call.p
        lo == RSub(RSub(c, h), w)
        hi == RAdd(RAdd(c, h), w)
    IN  /\ In01(call.out)
        /\ (RLt(p, lo) \/ RLt(hi, p)) => call.out = Zero
        /\ (RLe(RSub(c, h), p) /\ RLe(p, RAdd(c, h))) => call.out = One
        /\ (RLe(lo, p) /\ RLt(p, RSub(c, h))) =>
             RMul(call.out, w) = RSub(p, lo)
        /\ (RLt(RAdd(c, h), p) /\ RLe(p, hi)) =>
             RMul(call.out, w) = RSub(hi, p)
        /\ (c = Q(1, 2) /\ h = Q(5, 100) /\ w = Q(5, 100)) =>
             /\ p = Q(35, 100) => call.out = Zero
             /\ p \in {Q(42, 100), Q(58, 100)} =>
                  RLt(Zero, call.out) /\ RLt(call.out, One)
             /\ p = Q(1, 2) => call.out = One
             /\ p = Q(65, 100) => call.out = Zero

\* no jump: between two evaluations of one window the value changes by at
\* most the change of the progress divided by the fade width
C5_FadeNoJump ==
  (call.fn = "fadeRange" /\ call'.fn = "fadeRange" /\ call'.win = call.win)
    => RLe(RMul(RAbs(RSub(call'.out, call.out)), call.win[3]),
           RAbs(RSub(call'.p, call.p)))

\* C5: fadeRange is 0 outside [center-halfHold-fadeW, center+halfHold+fadeW],
\* 1 on [center-halfHold, center+halfHold], linear on the two fade bands,
\* always in [0, 1] and without a jump at any of the four boundaries; for
\* (0.5, 0.05, 0.05) it is 0 at 0.35 and 0.65, 1 at 0.5 and strictly between
\* 0 and 1 at 0.42 and 0.58.
C5_FadeRange == []C5_FadeShape /\ [][C5_FadeNoJump]_vars

\* the window centred at 0.5 evaluated on its trailing fade band
C5_Witness ==
  /\ call.fn = "fadeRange"
  /\ call.win = <<Q(1, 2), Q(5, 100), Q(5, 100)>>
  /\ call.p = Q(58, 100)
  /\ call.out = Q(2, 5)

\* number of nodes in the layers before layer l (counted from 0)
RECURSIVE NodesBefore(_, _)
NodesBefore(L, l) == IF l = 0 THEN 0 ELSE NodesBefore(L, l - 1) + L[l]

\* layer (counted from 0) of the n-th generated node (counted from 1)
LayerOfNode(L, n) ==
  CHOOSE l \in 0..(Len(L) - 1) : NodesBefore(L, l) < n /\ n <= NodesBefore(L, l + 1)

\* C7: the layerProgress of every generated node is l / (lastLayerIndex) for
\* its layer l: 0 for every node of the first layer, 1 for every node of the
\* last layer, equal within a layer and non-decreasing in the layer index.
C7_LayerProgress ==
  /\ data.total = NodesBefore(LAYERS, Len(LAYERS))
  /\ Len(data.layerValues) = data.total
  /\ \A n \in 1..data.total :
       LET l == LayerOfNode(LAYERS, n)
       IN  /\ RMul(data.layerValues[n], Q(Len(LAYERS) - 1, 1)) = Q(l, 1)
           /\ l = 0 => data.layerValues[n] = Zero
           /\ l = Len(LAYERS) - 1 => data.layerValues[n] = One
  /\ \A m \in 1..data.total, n \in 1..data.total :
       /\ LayerOfNode(LAYERS, m) <= LayerOfNode(LAYERS, n)
            => RLe(data.layerValues[m], data.layerValues[n])
       /\ LayerOfNode(LAYERS, m) = LayerOfNode(LAYERS, n)
            => data.layerValues[m] = data.layerValues[n]

\* a three-layer network was generated: its middle layer sits at one half
C7_Witness ==
  /\ Len(LAYERS) = 3
  /\ LAYERS[2] = 2
  /\ \E n \in 1..data.total :
       LayerOfNode(LAYERS, n) = 1 /\ data.layerValues[n] = Q(1, 2)

AllFinite(s) == \A n \in 1..Len(s) : IsFinite(s[n])

\* C8: for every layer configuration of length >= 2 every emitted node
\* attribute, connection layerNorm and sub-segment layerProgress is a finite
\* number.
C8_GenerationTotal ==
  Len(LAYERS) >= 2 =>
    /\ AllFinite(data.layerValues)
    /\ AllFinite(data.nodeRands)
    /\ \A n \in 1..Len(data.flat) : AllFinite(data.flat[n])
    /\ AllFinite(data.verts)
    /\ \A n \in 1..Len(data.conns) : IsFinite(data.conns[n].layerNorm)
    /\ AllFinite(data.lp)

C9_Placed ==
  frame.n >= 1 =>
    /\ inited
    /\ dustInited
    /\ Len(nodeMatrix) = data.total
    /\ \A n \in 1..data.total :
         nodeMatrix[n] = [set |-> TRUE, position |-> data.flat[n],
                          scale |-> One, writes |-> 1]
    /\ \A n \in 1..DUST_COUNT :
         /\ dustMatrix[n].set
         /\ dustMatrix[n].writes = 1
         /\ dustMatrix[n].position =
              Vec3(data.dustPositions[n].x, data.dustPositions[n].y,
                   data.dustPositions[n].z)

C9_Once ==
  /\ inited => inited'
  /\ dustInited => dustInited'
  /\ frame.n >= 1 => nodeMatrix' = nodeMatrix /\ dustMatrix' = dustMatrix
  /\ (frame'.n # frame.n /\ (frame'.nodeInit \/ frame'.dustInit)) => frame.n = 0

\* C9: the node placement runs on the first frame callback only: it writes
\* every node instance once with its generated position, the initialized flag
\* is never reset and no later callback writes a node transform; the same
\* holds for the dust instances and their flag.
C9_FirstFrameOnly == []C9_Placed /\ [][C9_Once]_vars

\* a second callback has run and the first node was still written once
C9_Witness ==
  /\ frame.n = 2
  /\ ~frame.nodeInit
  /\ inited
  /\ nodeMatrix[1].writes = 1
  /\ dustMatrix[1].writes = 1

\* the material m holds all three uniforms with the values of the callback
HoldsScrollTimeFocus(m, sp, t) ==
  /\ "uScroll" \in DOMAIN m /\ m.uScroll = sp
  /\ "uTime" \in DOMAIN m /\ m.uTime = t
  /\ "uFocus" \in DOMAIN m /\ m.uFocus = ExpectedFocus(sp)

C11_UniformsClamped ==
  frame.n >= 1 =>
    /\ In01(connMat.uScroll) /\ In01(connMat.uFocus)
    /\ In01(nodeMat.uScroll) /\ In01(nodeMat.uFocus)
    /\ In01(dustMat.uScroll)
    /\ particleMat.lightness =
         RAdd(Q(45, 100), RMul(Clamp01(frame.sp), Q(2, 10)))
    /\ particleMat.opacity =
         RAdd(Q(2, 10), RMul(Clamp01(frame.sp), Q(6, 10)))

\* the particle loop ran in this step: the callback's throttle let it through
ParticleLoopRan == frame'.n # frame.n /\ frame'.particles

C12_Skip ==
  ParticleLoopRan =>
    /\ \A n \in 1..PARTICLE_COUNT :
         IF HasConn(data, data.particles[n].ci)
           THEN /\ particleMatrix'[n].set
                /\ particleMatrix'[n].writes = particleMatrix[n].writes + 1
           ELSE particleMatrix'[n] = particleMatrix[n]
    /\ glow'.t = clock' /\ glow'.focus = frame'.focus
    /\ camOut' = lerpCam(spRef)
    /\ camera' = [position |-> smoothPos', lookAt |-> smoothTgt']

\* C12: a particle whose connection index names no connection (the list is
\* empty, so the index is undefined) is skipped for that frame: its transform
\* is left as it was, every other particle is written, the glow and camera
\* steps of the frame follow and the callback completes.
C12_SkipMissingConnection == [][C12_Skip]_vars

\* a one-layer network has no connection: the particle loop ran twice and
\* wrote nothing, while the camera was moved by both callbacks
C12_Witness ==
  /\ Len(data.conns) = 0
  /\ data.particles[1].ci = NaN
  /\ frame.n = 2
  /\ frame.particles
  /\ particleMatrix[1].writes = 0
  /\ camera.position = smoothPos
  /\ camera.position # Vec3(Q(0, 1), Q(0, 1), Q(28, 1))

C13_ReadOnly ==
  frame'.n # frame.n =>
    /\ scrollProgress' = scrollProgress
    /\ spRef' = spRef
    /\ LAYERS' = LAYERS
    /\ data'.nodes = data.nodes /\ data'.flat = data.flat
    /\ data'.conns = data.conns
    /\ data'.particles = data.particles
    /\ data' = data

\* C13: a frame callback never changes the scroll progress, the generated
\* nodes, the connection records or the particle attributes (the keyframes
\* are a constant of the module); what it writes are uniforms, material
\* colour and opacity, instance transforms, rotation, glow, the two flags,
\* the smoothing accumulators and the camera.
C13_FrameReadsOnly == [][C13_ReadOnly]_vars

\* two callbacks ran at progress 0.9 over a generated network and the
\* progress they read is still 0.9
C13_Witness ==
  /\ frame.n = 2
  /\ frame.sp = Q(9, 10)
  /\ spRef = Q(9, 10)
  /\ scrollProgress = Q(9, 10)
  /\ Len(data.conns) >= 1
  /\ inited
  /\ camera.position = smoothPos

\* elapsedTime * speed + offset of the recorded call
PhaseOf(c) == RAdd(RMul(c.p, c.pd.speed), c.pd.offset)

C14_Frac ==
  call.fn = "particleT" =>
    /\ RLe(Zero, call.out) /\ RLt(call.out, One)
    /\ call.out = RSub(PhaseOf(call), <<Floor(PhaseOf(call)), 1>>)

C14_SawtoothStep ==
  (/\ call.fn = "particleT" /\ call'.fn = "particleT"
   /\ call'.pd = call.pd
   /\ RLt(Zero, call.pd.speed)
   /\ RLt(call.p, call'.p))
    => /\ Floor(PhaseOf(call')) = Floor(PhaseOf(call)) => RLt(call.out, call'.out)
       /\ RLe(call'.out, call.out) => Floor(PhaseOf(call')) > Floor(PhaseOf(call))

\* C14: a particle's interpolation parameter is the fractional part of
\* elapsedTime * speed + offset: it is in [0, 1) for every elapsed time,
\* speed and offset, for a forward speed it increases with time within a
\* cycle and it decreases only by wrapping into a later cycle.
C14_Sawtooth == []C14_Frac /\ [][C14_SawtoothStep]_vars

\* after three seconds at speed 0.4 the particle is in its second cycle
C14_Witness ==
  /\ call.fn = "particleT"
  /\ call.p = Q(3, 1)
  /\ call.pd = [speed |-> Q(2, 5), offset |-> Zero]
  /\ call.out = Q(1, 5)

\* C15: the heatmap of the node shader and the heatmap of the connection
\* shader are the same function: the same four colour stops, the same
\* thresholds 0.33 and 0.66, and the same colour for every activation value.
C15_SameHeatmap ==
  /\ connStops = nodeStops
  /\ connThresholds = nodeThresholds
  /\ connThresholds.low = Q(33, 100) /\ connThresholds.high = Q(66, 100)
  /\ call.fn = "heatmap" => call.colors.conn = call.colors.node

\* both shaders colour the activation 0.5 between blue and light blue
C15_Witness ==
  /\ call.fn = "heatmap"
  /\ call.p = Q(1, 2)
  /\ call.colors.conn[1] = Q(17, 165)
  /\ call.colors.node[1] = Q(17, 165)

\* C16: of any two consecutive frame callbacks exactly one runs the particle
\* loop, whatever elapsed times the host supplies: the loop neither runs on
\* two consecutive callbacks nor is withheld on two consecutive callbacks.
C16_EveryOtherFrame ==
  [][(frame.n >= 1 /\ frame'.n # frame.n) => frame'.particles # frame.particles]_vars

\* layer (counted from 0) of the source node of connection record c
SourceLayer(c) ==
  CHOOSE l \in 0..(Len(LAYERS) - 2) :
    \E i \in 1..LAYERS[l + 1] : data.nodes[l + 1][i] = c.start

\* C17: the layerProgress of every connection sub-segment lies between the
\* layerProgress l/(L-1) of the connection's source node and (l+1)/(L-1) of
\* its target node, hence in [0, 1], for every connection of every adjacent
\* layer pair, the pair ending at the output layer included.
C17_SegmentProgress ==
  \A n \in 1..Len(data.conns) :
    \A g \in 1..(2 * CURVE_SEGMENTS) :
      /\ RLe(NodeLayerValue(LAYERS, SourceLayer(data.conns[n])),
             data.lp[(n - 1) * 2 * CURVE_SEGMENTS + g])
      /\ RLe(data.lp[(n - 1) * 2 * CURVE_SEGMENTS + g],
             NodeLayerValue(LAYERS, SourceLayer(data.conns[n]) + 1))
      /\ In01(data.lp[(n - 1) * 2 * CURVE_SEGMENTS + g])

\* vertex e (0 = start, 1 = end) of sub-segment g of connection n, read from
\* the position buffer
BufferVertex(n, g, e) ==
  [k \in 1..3 |-> data.verts[(((n - 1) * CURVE_SEGMENTS + (g - 1)) * 2 + e) * 3 + k]]

\* index in lp and rands of vertex e of sub-segment g of connection n
AttrIndex(n, g, e) == ((n - 1) * CURVE_SEGMENTS + (g - 1)) * 2 + e + 1

\* C18: every connection record joins a node of layer l to a node of layer
\* l+1 and owns exactly CURVE_SEGMENTS sub-segments of two vertices: the first
\* starts at the source node, the last ends at the target node, each ends
\* where the next starts, both vertices of a sub-segment carry the same
\* layerProgress and the same random scalar, and the buffers hold
\* 6*CURVE_SEGMENTS floats and 2*CURVE_SEGMENTS attribute values per record.
C18_Tessellation ==
  /\ Len(data.verts) = 6 * CURVE_SEGMENTS * Len(data.conns)
  /\ Len(data.lp) = 2 * CURVE_SEGMENTS * Len(data.conns)
  /\ Len(data.rands) = 2 * CURVE_SEGMENTS * Len(data.conns)
  /\ \A n \in 1..Len(data.conns) :
       /\ \E l \in 1..(Len(LAYERS) - 1) :
            /\ \E i \in 1..LAYERS[l] : data.nodes[l][i] = data.conns[n].start
            /\ \E j \in 1..LAYERS[l + 1] : data.nodes[l + 1][j] = data.conns[n].end
       /\ BufferVertex(n, 1, 0) = data.conns[n].start
       /\ BufferVertex(n, CURVE_SEGMENTS, 1) = data.conns[n].end
       /\ \A g \in 1..(CURVE_SEGMENTS - 1) :
            BufferVertex(n, g, 1) = BufferVertex(n, g + 1, 0)
       /\ \A g \in 1..CURVE_SEGMENTS :
            /\ data.lp[AttrIndex(n, g, 0)] = data.lp[AttrIndex(n, g, 1)]
            /\ data.rands[AttrIndex(n, g, 0)] = data.rands[AttrIndex(n, g, 1)]

\* a three-layer network with at least two connections, the second of which
\* bends away from the straight line between its nodes
C18_Witness ==
  /\ Len(LAYERS) = 3
  /\ Len(data.conns) >= 2
  /\ Len(data.verts) = 18 * Len(data.conns)
  /\ BufferVertex(2, 1, 0) = data.conns[2].start
  /\ BufferVertex(2, 3, 1) = data.conns[2].end
  /\ BufferVertex(2, 1, 1) # data.conns[2].start

\* on component k the accumulator moved by 0.03 of its distance to the pose
SmoothedBy3Percent(old, new, pose) ==
  \A k \in 1..3 :
    RSub(new[k], old[k]) = RMul(Q(3, 100), RSub(pose[k], old[k]))

\* on component k the new value lies between the old value and the pose: no
\* farther from the pose than before and not past it
NoOvershoot(old, new, pose) ==
  \A k \in 1..3 :
    /\ Between(old[k], new[k], pose[k])
    /\ RLe(RAbs(RSub(pose[k], new[k])), RAbs(RSub(pose[k], old[k])))
    /\ RAbs(RSub(pose[k], new[k])) = RMul(Q(97, 100), RAbs(RSub(pose[k], old[k])))

C19_Step ==
  frame'.n # frame.n =>
    /\ camOut' = lerpCam(spRef)
    /\ SmoothedBy3Percent(smoothPos, smoothPos', camOut'.pos)
    /\ SmoothedBy3Percent(smoothTgt, smoothTgt', camOut'.target)
    /\ camera' = [position |-> smoothPos', lookAt |-> smoothTgt']
    /\ NoOvershoot(smoothPos, smoothPos', camOut'.pos)
    /\ NoOvershoot(smoothTgt, smoothTgt', camOut'.target)
    /\ (frame.n >= 1 /\ frame.sp = frame'.sp) => camOut' = camOut

\* C19: on every frame the smoothed position and target each move towards
\* the pose evaluated at the current progress by the factor 0.03 and the
\* render camera is set to the smoothed pose; the distance of every component
\* to the evaluated pose shrinks to 0.97 of what it was and the component
\* never passes the pose, so under a constant progress the smoothed pose
\* approaches the evaluated pose monotonically and converges to it.
C19_Smoothing == [][C19_Step]_vars

\* two callbacks ran at progress 0.9: the camera is the smoothed pose, still
\* away from the evaluated pose and closer to it than the initial pose was
C19_Witness ==
  /\ frame.n = 2
  /\ frame.sp = Q(9, 10)
  /\ camOut = lerpCam(Q(9, 10))
  /\ camera.position = smoothPos
  /\ camera.position # camOut.pos
  /\ RLt(camOut.pos[3], smoothPos[3])
  /\ RLt(smoothPos[3], Q(36, 1))

LiveTimers(c) == {i.id : i \in c.intervals} \cup {t.id : t \in c.timeouts}

\* the effect is due: the committed dependencies differ from those of its
\* latest run
EffectDue(c) == c.deps # <<c.visible, c.displayedMessages>>

\* the count stays inside the script, at most one advance timeout and one
\* typing interval are alive, and each is the one its ref holds
C22_Bounded ==
  /\ chat.displayedMessages \in 0..Len(CHAT_MESSAGES)
  /\ Cardinality(chat.timeouts) <= 1
  /\ Cardinality(chat.intervals) <= 1
  /\ \A t \in chat.timeouts : t.id = chat.timeoutRef
  /\ \A i \in chat.intervals : i.id = chat.intervalRef

\* one step: the count is kept, grows by one or is reset to 0, and a run of
\* the effect that follows a run which returned a cleanup leaves none of the
\* earlier timers alive
C22_Step ==
  /\ \/ chat'.displayedMessages = chat.displayedMessages
     \/ chat'.displayedMessages = chat.displayedMessages + 1
     \/ chat'.displayedMessages = 0
  /\ (chat.cleanup /\ chat'.deps # chat.deps)
       => LiveTimers(chat') \cap LiveTimers(chat) = {}

\* C22: under any interleaving of re-renders with a new visible, runs of the
\* effect, timeout firings and interval ticks, displayedMessages stays within
\* 0..CHAT_MESSAGES.length and changes only by +1 or by a reset to 0; at most
\* one timeout that increments it is pending at a time, and no timer that
\* the effect cleanup cancels is alive afterwards.
C22_ScriptOrder == []C22_Bounded /\ [][C22_Step]_vars

\* the fourth message is half typed when a re-render with another visible is
\* committed, an earlier advance timeout having fired
C22_Witness ==
  /\ chat.displayedMessages = 3
  /\ \E i \in chat.intervals : i.idx = 1
  /\ chat.timeoutRef # 0
  /\ chat.deps # <<>> /\ chat.deps[1] # chat.visible

\* visible < 0.3
Hidden(v) == RLt(v, <<3, 10>>)

\* the reset state of the conversation: no message, no text, no typing, no
\* timer
ChatIdle(c) ==
  /\ c.displayedMessages = 0
  /\ c.typingText = <<>>
  /\ ~c.isTyping
  /\ LiveTimers(c) = {}

\* the latest run of the effect saw visible below 0.3, and visible is below
\* 0.3 still
StaysHidden(c) == c.deps # <<>> /\ Hidden(c.deps[1]) /\ Hidden(c.visible)

\* one step: a run of the effect with visible below 0.3 resets the three
\* states and leaves no timer; while visible stays below 0.3 afterwards the
\* count and the text are kept; the first run with visible back at 0.3 or
\* more starts from message 0, by the timeout of the first user message
C23_Step ==
  /\ (chat'.deps # chat.deps /\ Hidden(chat.visible)) => ChatIdle(chat')
  /\ (StaysHidden(chat) /\ StaysHidden(chat'))
       => /\ chat'.displayedMessages = chat.displayedMessages
          /\ chat'.typingText = chat.typingText
  /\ (chat'.deps # chat.deps /\ chat.deps # <<>> /\ Hidden(chat.deps[1])
        /\ ~Hidden(chat.visible))
       => /\ chat'.deps[2] = 0
          /\ chat'.displayedMessages = 0
          /\ \E t \in chat'.timeouts : t.role = CHAT_MESSAGES[1].role
          /\ chat'.intervals = {}

\* C23: whenever the effect runs with visible below 0.3 it resets
\* displayedMessages to 0, typingText to empty and isTyping to false and
\* leaves neither the typing interval nor the advance timeout alive; no
\* message is appended and no character typed while visible stays below 0.3,
\* and the conversation restarts from the first message when visible is 0.3
\* or more again.
C23_HiddenReset ==
  [](StaysHidden(chat) => ChatIdle(chat)) /\ [][C23_Step]_vars

\* the effect has run with visible below 0.3 on a conversation that had shown
\* messages and typed an answer, and has reset it
C23_Witness ==
  /\ StaysHidden(chat)
  /\ chat.deps[2] > 1
  /\ chat.intervalRef # 0
  /\ chat.displayedMessages = 0

\* the values of visible the Overlay hands to the chat
ChatVisible ==
  {fadeRange(sp, <<12, 25>>, <<1, 20>>, <<1, 20>>) : sp \in ChatProgress}

\* the conversation has run to its end and is at rest
ChatDone(c) ==
  /\ c.displayedMessages = Len(CHAT_MESSAGES)
  /\ ~c.isTyping
  /\ c.typingText = <<>>
  /\ LiveTimers(c) = {}

\* a run of the effect for the visible its previous run saw cancels no timer:
\* every timer that was alive is alive still
C21_NoCancel ==
  (chat'.deps # chat.deps /\ chat.deps # <<>> /\ chat.deps[1] = chat.visible
     /\ ~Hidden(chat.visible))
    => LiveTimers(chat) \subseteq LiveTimers(chat')

\* C21: if visible rises to a value of at least 0.3 and keeps it, no timer
\* started from then on is cancelled, so each fires; displayedMessages reaches
\* CHAT_MESSAGES.length, and from then on isTyping is false, typingText is
\* empty and no timer is pending.
C21_RunsToCompletion ==
  /\ \A v \in ChatVisible :
       ~Hidden(v) => (<>[](chat.visible = v) => <>[]ChatDone(chat))
  /\ [][C21_NoCancel]_vars

\* the script has been shown to its last message with visible at 0.3 or more,
\* the effect has seen the full count and nothing is pending
C21_Witness ==
  /\ ~Hidden(chat.visible)
  /\ ChatDone(chat)
  /\ ~EffectDue(chat)
  /\ chat.intervalRef # 0 /\ chat.timeoutRef # 0

====
